---- MODULE Spec2Model ----
(***************************************************************************)
(* RG-Customer-Hub: login / permission guards, credential issuing, the     *)
(* tenant resolver (accessible sub-applications) and the tenant            *)
(* configuration resolver, modelled from the NestJS sources.               *)
(*                                                                         *)
(* Strings that the code takes apart are modelled by their parts:          *)
(*   - a permission code is the sequence of its ':'-separated segments     *)
(*     ("app:einvoice:access" is <<"app","einvoice","access">>);           *)
(*   - an Authorization header is the sequence of its ' '-separated words. *)
(* A JSON settings object is a function from its keys to their values; a   *)
(* SQL NULL / JS null / undefined is the value Null (Undefined for a        *)
(* string).                                                                *)
(***************************************************************************)
EXTENDS Integers, Sequences, FiniteSets, TLC

VARIABLES
  tenants,     \* table tenants:              id -> row
  apps,        \* table sub_applications:     id -> row
  tenantApps,  \* table tenant_applications:  sequence of rows (table order)
  users,       \* table users:                id -> row
  roles,       \* table roles:                id -> row (with its permission codes)
  tokens,      \* tokens signed so far by jwtService.sign
  now,         \* the clock, in days
  req,         \* the HTTP request in flight (guard chain position included)
  call,        \* the last invocation made on a service / handler
  resp,        \* the last response (or thrown HttpException)
  pending,     \* service invocations suspended at an await: name -> position
  rolePermissionsEager
               \* whether the Role entity declares its permissions relation
               \* eager; the entity is not among the sources, so either is
               \* possible, and it is fixed for a run of the service

vars == <<tenants, apps, tenantApps, users, roles, tokens, now, req, call, resp,
          pending, rolePermissionsEager>>
store == <<tenants, apps, tenantApps, users, roles, rolePermissionsEager>>

----------------------------------------------------------------------------
(* Values *)

\* null / undefined where an object is expected
Null == [null |-> TRUE]
\* undefined where a string is expected (an absent query parameter or claim)
Undefined == "undefined"
EmptyObj == [k \in {} |-> 0]
NoBody == <<>>

Status == {"active", "inactive"}

\* HTTP status codes of the exceptions the code throws
OK == 200
BAD_REQUEST == 400
UNAUTHORIZED == 401
FORBIDDEN == 403
NOT_FOUND == 404
INTERNAL_SERVER_ERROR == 500

Range(s) == {s[i] : i \in 1..Len(s)}
MapSeq(s, F(_)) == [i \in 1..Len(s) |-> F(s[i])]

\* permission codes used by the model
PermEinvoice == <<"app", "einvoice", "access">>
PermImagemap == <<"app", "imagemap", "access">>
PermMarketinghub == <<"app", "marketinghub", "access">>
PermUserRead == <<"system", "user", "read">>
PermRoleRead == <<"system", "role", "read">>
PermInvoiceAccess == <<"einvoice", "invoice", "access">>
PermAppEinvoiceRead == <<"app", "einvoice", "read">>

----------------------------------------------------------------------------
(* Relational loading (TypeORM find with relations) *)

\* Role with its permissions relation
LoadRole(r) ==
  IF r \in DOMAIN roles
    THEN [id |-> r, permissions |-> roles[r].permissions]
    ELSE Null

\* Role as a relation of another entity when its own relations are not asked
\* for: its columns, and its permissions only if that relation is eager
LoadRoleColumns(r) ==
  IF rolePermissionsEager THEN LoadRole(r)
  ELSE IF r \in DOMAIN roles THEN [id |-> r]
  ELSE Null

LoadApplication(a) ==
  IF a \in DOMAIN apps
    THEN [id |-> a, code |-> apps[a].code, status |-> apps[a].status]
    ELSE Null

\* tenant_applications row with relation 'application'
LoadTenantApplication(ta) ==
  [tenant_id |-> ta.tenant_id, application_id |-> ta.application_id,
   status |-> ta.status, settings |-> ta.settings,
   application |-> LoadApplication(ta.application_id)]

\* tenant with relations 'tenantApplications', 'tenantApplications.application'
\* (read from the given rows of tenant_applications)
LoadTenantFrom(rows, t) ==
  IF t \in DOMAIN tenants
    THEN [id |-> t, name |-> tenants[t].name, status |-> tenants[t].status,
          custom_settings |-> tenants[t].custom_settings,
          tenantApplications |->
            MapSeq(SelectSeq(rows, LAMBDA ta : ta.tenant_id = t),
                   LoadTenantApplication)]
    ELSE Null

LoadTenant(t) == LoadTenantFrom(tenantApps, t)

\* userRepository.findOne({where: {id}, relations: [roles, roles.permissions,
\* tenant, tenant.tenantApplications, tenant.tenantApplications.application]})
LoadUser(userId) ==
  IF userId \in DOMAIN users
    THEN [id |-> userId,
          roles |-> MapSeq(users[userId].roles, LoadRole),
          tenant |-> LoadTenant(users[userId].tenantId)]
    ELSE Null

----------------------------------------------------------------------------
(* TenantService.findAccessibleSubApplications *)

\* String.startsWith('app:') on a code given by its segments
StartsWithApp(code) == Len(code) >= 2 /\ code[1] = "app"
\* String.endsWith(':access')
EndsWithAccess(code) == Len(code) >= 2 /\ code[Len(code)] = "access"
\* (mutant) the last segment is taken for the application code
ExtractAppCodeLastSegment(code) == code[Len(code)]

\* code.split(':')[1]
ExtractAppCode(code) == code[2]

\* user.roles.flatMap((role) => role.permissions)
RECURSIVE FlatMapPermissions(_)
FlatMapPermissions(rs) ==
  IF rs = <<>> THEN <<>>
  ELSE Head(rs).permissions \o FlatMapPermissions(Tail(rs))

\* userPermissions.filter(startsWith && endsWith).map(split(':')[1])
AppAccessPermissions(userPermissions) ==
  MapSeq(SelectSeq(userPermissions,
                   LAMBDA p : StartsWithApp(p) /\ EndsWithAccess(p)),
         ExtractAppCode)

\* (mutant) only the first extracted code is compared
IncludesFirstOnly(list, x) == Len(list) > 0 /\ list[1] = x

\* Array.prototype.includes
Includes(list, x) == \E i \in 1..Len(list) : list[i] = x

\* tenantApplications.filter(application && application.status === 'active')
StatusFilter(tenantApp) ==
  tenantApp.application # Null /\ tenantApp.application.status = "active"

\* the three filter / map steps over an already loaded user
AccessibleApps(user) ==
  LET appAccessPermissions == AppAccessPermissions(FlatMapPermissions(user.roles))
      applicationsAfterStatusFilter ==
        SelectSeq(user.tenant.tenantApplications, StatusFilter)
      mappedApplications ==
        MapSeq(applicationsAfterStatusFilter, LAMBDA ta : ta.application)
  IN SelectSeq(mappedApplications,
               LAMBDA app : app # Null /\ Includes(appAccessPermissions, app.code))

\* (mutant) a user without tenant is resolved against every pairing row
findAccessibleIgnoringMissingTenant(userId) ==
  LET user == LoadUser(userId) IN
  IF user = Null THEN <<>>
  ELSE IF user.tenant = Null
    THEN AccessibleApps([user EXCEPT !.tenant =
           [tenantApplications |-> MapSeq(tenantApps, LoadTenantApplication)]])
    ELSE AccessibleApps(user)

findAccessibleSubApplications(userId) ==
  LET user == LoadUser(userId) IN
  IF user = Null \/ user.tenant = Null THEN <<>>
  ELSE AccessibleApps(user)

----------------------------------------------------------------------------
(* Responses *)

Reply(op, body) == [op |-> op, status |-> OK, message |-> "", body |-> body]
Throw(op, status, message) ==
  [op |-> op, status |-> status, message |-> message, body |-> NoBody]
NoResp == [op |-> "none", status |-> OK, message |-> "", body |-> NoBody]
NoCall == [op |-> "none"]
NoReq == [stage |-> "IDLE"]
NoPending == <<>>

----------------------------------------------------------------------------
(* TenantService.getTenantConfigByAppCode / updateTenantAppSettings *)

\* (mutant) the spread written the other way round: tenant defaults win
MergeDefaultsWin(base, over) ==
  [k \in DOMAIN base \cup DOMAIN over |->
     IF k \in DOMAIN base THEN base[k] ELSE over[k]]

\* (mutant) a shared key accumulates instead of being overwritten
MergeAccumulating(base, over) ==
  [k \in DOMAIN base \cup DOMAIN over |->
     IF k \in DOMAIN base \cap DOMAIN over THEN (base[k] + over[k]) % 16
     ELSE IF k \in DOMAIN over THEN over[k] ELSE base[k]]

\* object spread { ...base, ...over }
Merge(base, over) ==
  [k \in DOMAIN base \cup DOMAIN over |->
     IF k \in DOMAIN over THEN over[k] ELSE base[k]]

\* spreading null / undefined adds no key; (settings || {})
OrEmpty(obj) == IF obj = Null THEN EmptyObj ELSE obj

\* Values a request body can hold besides an object: a JSON array and a
\* primitive (string, number, boolean). typeof [] is 'object'.
ArrayOf(elements) == [array |-> elements]
Primitive(value) == [primitive |-> value]
IsArray(value) == DOMAIN value = {"array"}
IsPrimitive(value) == DOMAIN value = {"primitive"}

\* the property names of an array are its indices, written as strings
ArrayIndexKeys == << "0", "1" >>

\* what  ...value  contributes to an object literal: the own properties of an
\* object, the index properties of an array
OwnProperties(value) ==
  IF IsArray(value)
    THEN [k \in { ArrayIndexKeys[i] : i \in 1..Len(value.array) } |->
            value.array[CHOOSE i \in 1..Len(value.array) : ArrayIndexKeys[i] = k]]
    ELSE value

\* !settingsData || typeof settingsData !== 'object'
InvalidSettingsData(settingsData) ==
  settingsData = Null \/ IsPrimitive(settingsData)

\* Array.prototype.find: the first element passing the test, else undefined
Find(list, Test(_)) ==
  IF \E i \in 1..Len(list) : Test(list[i])
    THEN list[CHOOSE i \in 1..Len(list) :
                Test(list[i]) /\ \A j \in 1..(i - 1) : ~Test(list[j])]
    ELSE Null

\* tenantRepository.findOne({where: {id: tenantId, status: 'active'}, relations})
FindActiveTenantFrom(rows, tenantId) ==
  IF tenantId \in DOMAIN tenants /\ tenants[tenantId].status = "active"
    THEN LoadTenantFrom(rows, tenantId)
    ELSE Null

FindActiveTenant(tenantId) == FindActiveTenantFrom(tenantApps, tenantId)

\* (mutant) the Pairing is looked up before the tenant
getTenantConfigPairingFirst(op, appcode, tenantId) ==
  LET rows == SelectSeq(tenantApps, LAMBDA ta : ta.tenant_id = tenantId)
      found == \E i \in 1..Len(rows) :
                 /\ rows[i].application_id \in DOMAIN apps
                 /\ apps[rows[i].application_id].code = appcode
                 /\ apps[rows[i].application_id].status = "active"
      tenant == FindActiveTenant(tenantId)
  IN IF ~found
       THEN Throw(op, NOT_FOUND, "Application not found for this tenant or inactive")
     ELSE IF tenant = Null
       THEN Throw(op, NOT_FOUND, "Tenant not found or inactive")
     ELSE Reply(op, [tenant |-> [id |-> tenant.id, name |-> tenant.name],
                     settings |-> OrEmpty(tenant.custom_settings)])

\* getTenantConfigByAppCode reading the given rows of tenant_applications.
\* The result is a response: the configuration, or the NotFoundException thrown
getTenantConfigFrom(rows, op, appcode, tenantId) ==
  LET tenant == FindActiveTenantFrom(rows, tenantId) IN
  IF tenant = Null
    THEN Throw(op, NOT_FOUND, "Tenant not found or inactive")
    ELSE
      LET tenantApplication ==
            Find(tenant.tenantApplications,
                 LAMBDA ta : /\ ta.application # Null
                             /\ ta.application.code = appcode
                             /\ ta.application.status = "active")
      IN IF tenantApplication = Null
           THEN Throw(op, NOT_FOUND, "Application not found for this tenant or inactive")
           ELSE Reply(op,
                  [tenant |-> [id |-> tenant.id, name |-> tenant.name],
                   application |-> [id |-> tenantApplication.application.id,
                                    code |-> tenantApplication.application.code],
                   settings |-> Merge(OrEmpty(tenant.custom_settings),
                                      OrEmpty(tenantApplication.settings))])

getTenantConfigByAppCode(op, appcode, tenantId) ==
  getTenantConfigFrom(tenantApps, op, appcode, tenantId)

\* (mutant) the row is looked up by application code alone
FindTenantAppAnyTenant(appcode, tenantId) ==
  LET Match(ta) ==
        /\ ta.application_id \in DOMAIN apps
        /\ (appcode # Undefined => apps[ta.application_id].code = appcode)
        /\ apps[ta.application_id].status = "active"
  IN IF \E i \in 1..Len(tenantApps) : Match(tenantApps[i])
       THEN CHOOSE i \in 1..Len(tenantApps) :
              Match(tenantApps[i]) /\ \A j \in 1..(i - 1) : ~Match(tenantApps[j])
       ELSE 0

\* tenantApplicationRepository.findOne({where: {tenant_id, application:
\* {code: appcode, status: 'active'}}}): index of the first matching row, 0 if
\* none. A where-property whose value is undefined puts no condition.
FindTenantApp(appcode, tenantId) ==
  LET Match(ta) ==
        /\ ta.tenant_id = tenantId
        /\ ta.application_id \in DOMAIN apps
        /\ (appcode # Undefined => apps[ta.application_id].code = appcode)
        /\ apps[ta.application_id].status = "active"
  IN IF \E i \in 1..Len(tenantApps) : Match(tenantApps[i])
       THEN CHOOSE i \in 1..Len(tenantApps) :
              Match(tenantApps[i]) /\ \A j \in 1..(i - 1) : ~Match(tenantApps[j])
       ELSE 0

\* (mutant) the patch replaces the stored settings
SaveSettingsReplace(i, settingsData) ==
  [tenantApps EXCEPT ![i].settings = settingsData]

\* the row's settings after  { ...(tenantApp.settings || {}), ...settingsData }
\* has been saved
SaveSettings(i, settingsData) ==
  [tenantApps EXCEPT ![i].settings = Merge(OrEmpty(tenantApps[i].settings),
                                          OwnProperties(settingsData))]

\* TenantController.getAppConfig: the mode is defaulted and handed over as a
\* third argument, for which getTenantConfigByAppCode declares no parameter.
getAppConfig(user, appcode, mode) ==
  IF user = Null \/ user.id = Undefined \/ user.tenantId = Undefined
    THEN Throw("getAppConfig", UNAUTHORIZED, "Invalid authentication")
    ELSE LET configMode == IF mode = Undefined THEN "merge" ELSE mode
         IN getTenantConfigByAppCode("getAppConfig", appcode, user.tenantId)

----------------------------------------------------------------------------
(* Token codec: JwtModule.register({secret, signOptions: {expiresIn: '7d'}}) *)

ExpiresInDays == 7

\* jwtService.sign(payload) at the current time
Sign(user) ==
  [kind |-> "jwt", sig |-> "JWT_SECRET", user |-> user, iat |-> now,
   exp |-> now + ExpiresInDays]

\* what a client can write in the place of a token without the secret
GarbageToken == [kind |-> "garbage", sig |-> "", user |-> Null, iat |-> 0, exp |-> 0]
UndefinedToken == [kind |-> "undefined", sig |-> "", user |-> Null, iat |-> 0, exp |-> 0]
ForgedToken ==
  [kind |-> "jwt", sig |-> "forged",
   user |-> [id |-> "u1", email |-> "admin@simalfa.com", name |-> "SIMALFA Admin",
             tenantId |-> "t1",
             roles |-> <<[id |-> "r1", permissions |-> <<PermUserRead>>]>>],
   iat |-> 0, exp |-> 1000]

\* (mutant) a token is still accepted on the day it expires
VerifyLateExpiry(token) ==
  IF token.kind # "jwt" \/ token.sig # "JWT_SECRET"
    THEN [ok |-> FALSE, error |-> "JsonWebTokenError", user |-> Null]
  ELSE IF now > token.exp
    THEN [ok |-> FALSE, error |-> "TokenExpiredError", user |-> Null]
  ELSE [ok |-> TRUE, error |-> "", user |-> token.user]

\* jwtService.verify(token): the payload, or the name of the error thrown
\* (malformed / bad signature before expiry)
Verify(token) ==
  IF token.kind # "jwt" \/ token.sig # "JWT_SECRET"
    THEN [ok |-> FALSE, error |-> "JsonWebTokenError", user |-> Null]
  ELSE IF now >= token.exp
    THEN [ok |-> FALSE, error |-> "TokenExpiredError", user |-> Null]
  ELSE [ok |-> TRUE, error |-> "", user |-> token.user]

----------------------------------------------------------------------------
(* Route metadata: SetMetadata('require-login', ..) / ('require-permission', ..) *)

MetaUnset == "unset"
\* 'require-permission' metadata: not set, or the codes of @RequirePermission
NoPermissionMeta == [declared |-> FALSE, codes |-> <<>>]
Permissions(codes) == [declared |-> TRUE, codes |-> codes]
Meta(classLogin, handlerLogin, classPerms, handlerPerms) ==
  [classLogin |-> classLogin, handlerLogin |-> handlerLogin,
   classPerms |-> classPerms, handlerPerms |-> handlerPerms]

\* AppController carries no decorator; TenantController is @RequireLogin() and
\* getTenants is @RequirePermission('system:user:read').
Routes == { "GET /", "POST login", "GET tenants", "GET sub-applications",
            "GET verify-auth" }
\* Routes whose controller and handler both carry a decorator of the same kind:
\* @RequireLoginFalse() on a handler of a @RequireLogin() controller and the
\* other way round, @RequirePermission on both levels with different codes.
DoublyDecoratedRoutes ==
  { "decorated:handler-login-false", "decorated:handler-login-true",
    "decorated:handler-user-read", "decorated:handler-einvoice" }
\* The "decorated" routes apply the exported decorators in combinations the
\* controllers of the application do not use.
DecoratedRoutes ==
  { "decorated:two-permissions", "decorated:permission-only" }
    \cup DoublyDecoratedRoutes
RouteMeta(route) ==
  CASE route \in {"GET /", "POST login"} -> Meta(MetaUnset, MetaUnset, NoPermissionMeta, NoPermissionMeta)
    [] route = "GET tenants" -> Meta("true", MetaUnset, NoPermissionMeta, Permissions(<<PermUserRead>>))
    [] route \in {"GET sub-applications", "GET verify-auth"} ->
         Meta("true", MetaUnset, NoPermissionMeta, NoPermissionMeta)
    [] route = "decorated:two-permissions" ->
         Meta("true", MetaUnset, NoPermissionMeta,
              Permissions(<<PermUserRead, PermEinvoice>>))
    [] route = "decorated:permission-only" ->
         Meta(MetaUnset, MetaUnset, NoPermissionMeta, Permissions(<<PermImagemap>>))
    [] route = "decorated:handler-login-false" ->
         Meta("true", "false", NoPermissionMeta, NoPermissionMeta)
    [] route = "decorated:handler-login-true" ->
         Meta("false", "true", NoPermissionMeta, NoPermissionMeta)
    [] route = "decorated:handler-user-read" ->
         Meta("true", MetaUnset, Permissions(<<PermEinvoice>>),
              Permissions(<<PermUserRead>>))
    [] route = "decorated:handler-einvoice" ->
         Meta("true", MetaUnset, Permissions(<<PermUserRead>>),
              Permissions(<<PermEinvoice>>))

\* (mutant) undefined metadata read as "login required"
RequireLoginDefaultTrue(meta) ==
  IF meta.classLogin # MetaUnset THEN meta.classLogin
  ELSE IF meta.handlerLogin # MetaUnset THEN meta.handlerLogin
  ELSE "true"

\* reflector.getAllAndOverride('require-login', [getClass(), getHandler()]):
\* the first target whose metadata is defined, undefined if none
RequireLogin(meta) ==
  IF meta.classLogin # MetaUnset THEN meta.classLogin
  ELSE IF meta.handlerLogin # MetaUnset THEN meta.handlerLogin
  ELSE MetaUnset

----------------------------------------------------------------------------
(* LoginGuard.canActivate *)

Pass(user) == [pass |-> TRUE, status |-> OK, message |-> "", user |-> user]
Reject(status, message) ==
  [pass |-> FALSE, status |-> status, message |-> message, user |-> Null]

\* authorization.split(' ')[1]
SplitToken(authorization) ==
  IF Len(authorization) >= 2 THEN authorization[2] ELSE UndefinedToken

\* (mutant) the expiry error is swallowed: an expired token is let through
LoginGuardIgnoringExpiry(meta, authorization, user) ==
  IF RequireLogin(meta) # "true" THEN Pass(user)
  ELSE IF authorization = <<>> THEN Reject(UNAUTHORIZED, "User not logged in")
  ELSE LET data == Verify(SplitToken(authorization)) IN
       IF data.ok \/ data.error = "TokenExpiredError"
         THEN Pass(SplitToken(authorization).user)
         ELSE Reject(UNAUTHORIZED, "Token expired, please login again")

\* user: the identity context of the request before the guard (none)
LoginGuard(meta, authorization, user) ==
  IF RequireLogin(meta) # "true" THEN Pass(user)
  ELSE IF authorization = <<>> THEN Reject(UNAUTHORIZED, "User not logged in")
  ELSE LET data == Verify(SplitToken(authorization)) IN
       IF data.ok THEN Pass(data.user)
       ELSE Reject(UNAUTHORIZED, "Token expired, please login again")

----------------------------------------------------------------------------
(* PermissionGuard *)

\* the required codes: the handler's declaration before the controller's,
\* none by default
RequiredPermissions(meta) ==
  IF meta.handlerPerms.declared THEN meta.handlerPerms.codes
  ELSE IF meta.classPerms.declared THEN meta.classPerms.codes
  ELSE <<>>

\* the permission codes a role of the identity context carries
RolePermissions(role) ==
  IF "permissions" \in DOMAIN role THEN Range(role.permissions) ELSE {}

\* the identity's roles flattened to a set of permission codes
FlattenedPermissions(user) ==
  UNION { RolePermissions(user.roles[i]) : i \in 1..Len(user.roles) }

\* (mutant) one of the declared codes is enough
PermissionGuardAnyCode(meta, user) ==
  IF RequiredPermissions(meta) = <<>> THEN Pass(user)
  ELSE IF user = Null THEN Reject(UNAUTHORIZED, "User not logged in")
  ELSE IF Range(RequiredPermissions(meta)) \cap FlattenedPermissions(user) # {}
    THEN Pass(user)
    ELSE Reject(FORBIDDEN, "Insufficient permissions")

\* (mutant) the codes are those the identity's roles hold in the store now
PermissionGuardFromStore(meta, user) ==
  IF RequiredPermissions(meta) = <<>> THEN Pass(user)
  ELSE IF user = Null THEN Reject(UNAUTHORIZED, "User not logged in")
  ELSE IF Range(RequiredPermissions(meta)) \subseteq
            UNION { Range(roles[user.roles[i].id].permissions) :
                      i \in { j \in 1..Len(user.roles) :
                                user.roles[j].id \in DOMAIN roles } }
    THEN Pass(user)
    ELSE Reject(FORBIDDEN, "Insufficient permissions")

PermissionGuard(meta, user) ==
  IF RequiredPermissions(meta) = <<>> THEN Pass(user)
  ELSE IF user = Null THEN Reject(UNAUTHORIZED, "User not logged in")
  ELSE IF Range(RequiredPermissions(meta)) \subseteq FlattenedPermissions(user)
    THEN Pass(user)
    ELSE Reject(FORBIDDEN, "Insufficient permissions")

----------------------------------------------------------------------------
(* Stores *)

TenantRow(name, status, settings) ==
  [name |-> name, status |-> status, custom_settings |-> settings]
AppRow(code, status) == [code |-> code, status |-> status]
PairingRow(t, a, status, settings) ==
  [tenant_id |-> t, application_id |-> a, status |-> status, settings |-> settings]
\* bcrypt.hash / bcrypt.compare, the external secret comparator
Hash(p) == <<"hash", p>>
\* (mutant) every password compares equal
CompareAny(p, h) == TRUE
Compare(p, h) == h = Hash(p)
UserRow(email, name, tenantId, rs) ==
  [email |-> email, name |-> name, password |-> Hash("admin123"),
   tenantId |-> tenantId, roles |-> rs]
RoleRow(perms) == [permissions |-> perms]

\* ids a caller may name; u9 / t9 / a9 name no row
UserIdInputs == {"u1", "u2", "u3", "u9"}

\* the permission lists a role may hold in the resolver's specification
RolePermsPool ==
  { <<>>,
    <<PermEinvoice>>,
    <<PermUserRead, PermEinvoice>>,
    <<PermEinvoice, PermImagemap>>,
    <<PermImagemap, PermUserRead, PermEinvoice>>,
    <<PermInvoiceAccess, PermAppEinvoiceRead>> }
Role2PermsPool == { <<>>, <<PermImagemap>>, <<PermRoleRead>> }
UserRolesPool == { <<>>, <<"r1">>, <<"r1", "r2">>, <<"r2", "r1">> }

\* Stores of the tenant resolver's specification: u1 belongs to t1, u2 to t2
\* (whose second pairing names a missing application), u3 to a missing tenant.
InitAccess ==
  /\ \E s1 \in Status :
       tenants = [t1 |-> TenantRow("SIMALFA", s1, EmptyObj),
                  t2 |-> TenantRow("Kendo", "active", EmptyObj)]
  /\ \E s1 \in Status, s2 \in Status :
       apps = [a1 |-> AppRow("einvoice", s1), a2 |-> AppRow("imagemap", s2)]
  /\ \E s1 \in Status, s2 \in Status :
       tenantApps = << PairingRow("t1", "a1", s1, Null),
                       PairingRow("t1", "a2", s2, Null),
                       PairingRow("t2", "a2", "active", Null),
                       PairingRow("t2", "a9", "active", Null) >>
  /\ \E rs \in UserRolesPool :
       users = [u1 |-> UserRow("admin@simalfa.com", "SIMALFA Admin", "t1", rs),
                u2 |-> UserRow("admin@kendo.com", "Kendo Admin", "t2", <<"r1">>),
                u3 |-> UserRow("ghost@rgexp.com", "rgexp Admin", "t9", <<"r1">>)]
  /\ \E p1 \in RolePermsPool, p2 \in Role2PermsPool :
       roles = [r1 |-> RoleRow(p1), r2 |-> RoleRow(p2)]
  /\ rolePermissionsEager = FALSE
  /\ tokens = {}
  /\ now = 0
  /\ req = NoReq
  /\ call = NoCall
  /\ resp = NoResp
  /\ pending = NoPending

\* GET sub-applications, from the handler's body on
CallAccessible(userId) ==
  /\ call' = [op |-> "accessibleApplications", userId |-> userId]
  /\ resp' = Reply("accessibleApplications", findAccessibleSubApplications(userId))
  /\ UNCHANGED <<store, tokens, now>>

NextAccess ==
  \E userId \in UserIdInputs : CallAccessible(userId) /\ UNCHANGED <<req, pending>>

SpecAccess == InitAccess /\ [][NextAccess]_vars

----------------------------------------------------------------------------
(* The configuration resolver on its own: GET / POST app-config from the    *)
(* handler's body on, over a family of stores.                              *)

DefaultsPool == { Null, EmptyObj, [x |-> 0, y |-> 2] }
PairingSettingsPool == { Null, [x |-> 1] }
PatchPool == { [x |-> 2, y |-> 9] }
\* t2 has no Pairing for imagemap
AppCodeInputs == { "einvoice", "imagemap", Undefined }
ModeInputs == { Undefined, "merge", "standalone" }
\* identity contexts of the stored users (u3's tenant is missing)
Identity(u, t) == [id |-> u, tenantId |-> t]
IdentityInputs == { Identity("u1", "t1"), Identity("u2", "t2"), Identity("u3", "t9") }

InitConfig ==
  /\ \E s1 \in Status, d1 \in DefaultsPool :
       tenants = [t1 |-> TenantRow("SIMALFA", s1, d1),
                  t2 |-> TenantRow("Kendo", "active", [y |-> 2])]
  /\ \E s1 \in Status :
       apps = [a1 |-> AppRow("einvoice", s1), a2 |-> AppRow("imagemap", "active")]
  /\ \E s1 \in Status, p1 \in PairingSettingsPool :
       tenantApps = << PairingRow("t1", "a1", s1, p1),
                       PairingRow("t1", "a2", "active", Null),
                       PairingRow("t2", "a1", "active", [x |-> 1]) >>
  /\ users = [u1 |-> UserRow("admin@simalfa.com", "SIMALFA Admin", "t1", <<"r1">>),
              u2 |-> UserRow("admin@kendo.com", "Kendo Admin", "t2", <<"r1">>),
              u3 |-> UserRow("ghost@rgexp.com", "rgexp Admin", "t9", <<"r1">>)]
  /\ roles = [r1 |-> RoleRow(<<PermUserRead, PermEinvoice, PermImagemap>>)]
  /\ rolePermissionsEager = FALSE
  /\ tokens = {}
  /\ now = 0
  /\ req = NoReq
  /\ call = NoCall
  /\ resp = NoResp
  /\ pending = NoPending

CallGetAppConfig(user, appcode, mode) ==
  /\ call' = [op |-> "getAppConfig", user |-> user, appcode |-> appcode, mode |-> mode]
  /\ resp' = getAppConfig(user, appcode, mode)
  /\ UNCHANGED <<store, tokens, now>>

\* TenantController.updateAppConfig with TenantService.updateTenantAppSettings:
\* find the row, merge, save, then answer with a fresh read of the configuration
CallUpdateAppConfig(user, appcode, settingsData) ==
  /\ call' = [op |-> "updateAppConfig", user |-> user, appcode |-> appcode,
              settingsData |-> settingsData]
  /\ UNCHANGED <<tenants, apps, users, roles, rolePermissionsEager, tokens, now>>
  /\ IF InvalidSettingsData(settingsData)
       THEN /\ resp' = Throw("updateAppConfig", BAD_REQUEST, "Invalid settings data")
            /\ UNCHANGED tenantApps
       ELSE IF user = Null \/ user.tenantId = Undefined
         THEN /\ resp' = Throw("updateAppConfig", UNAUTHORIZED, "Invalid authentication")
              /\ UNCHANGED tenantApps
         ELSE LET i == FindTenantApp(appcode, user.tenantId) IN
              IF i = 0
                THEN /\ resp' = Throw("updateAppConfig", NOT_FOUND,
                                      "Application not found for tenant or inactive")
                     /\ UNCHANGED tenantApps
                ELSE /\ tenantApps' = SaveSettings(i, settingsData)
                     \* the re-read sees the rows as saved
                     /\ resp' = getTenantConfigFrom(SaveSettings(i, settingsData),
                                                    "updateAppConfig", appcode,
                                                    user.tenantId)

NextConfig ==
  \E user \in IdentityInputs, appcode \in AppCodeInputs :
    \/ \E mode \in ModeInputs :
         CallGetAppConfig(user, appcode, mode) /\ UNCHANGED <<req, pending>>
    \/ \E settingsData \in PatchPool \cup {Null} :
         CallUpdateAppConfig(user, appcode, settingsData) /\ UNCHANGED <<req, pending>>

SpecConfig == InitConfig /\ [][NextConfig]_vars

----------------------------------------------------------------------------
(* Sequences of settings updates and reads on a store whose tenants,        *)
(* applications and Pairings are all active.                                *)

SettingsPatchPool == { [y |-> 9], [x |-> 2, y |-> 8] }
SettingsIdentityInputs == { Identity("u1", "t1"), Identity("u2", "t2") }
\* t2 has no Pairing for imagemap
SettingsAppCodeInputs == { "einvoice", "imagemap" }

InitSettings ==
  /\ tenants = [t1 |-> TenantRow("SIMALFA", "active", [w |-> 3]),
                t2 |-> TenantRow("Kendo", "active", EmptyObj)]
  /\ apps = [a1 |-> AppRow("einvoice", "active"), a2 |-> AppRow("imagemap", "active")]
  /\ \E p1 \in PairingSettingsPool :
       tenantApps = << PairingRow("t1", "a1", "active", p1),
                       PairingRow("t1", "a2", "active", Null),
                       PairingRow("t2", "a1", "active", [x |-> 1]) >>
  /\ users = [u1 |-> UserRow("admin@simalfa.com", "SIMALFA Admin", "t1", <<"r1">>),
              u2 |-> UserRow("admin@kendo.com", "Kendo Admin", "t2", <<"r1">>)]
  /\ roles = [r1 |-> RoleRow(<<PermUserRead, PermEinvoice, PermImagemap>>)]
  /\ rolePermissionsEager = FALSE
  /\ tokens = {}
  /\ now = 0
  /\ req = NoReq
  /\ call = NoCall
  /\ resp = NoResp
  /\ pending = NoPending

NextSettings ==
  \E user \in SettingsIdentityInputs, appcode \in SettingsAppCodeInputs :
    \/ CallGetAppConfig(user, appcode, "merge") /\ UNCHANGED <<req, pending>>
    \/ \E settingsData \in SettingsPatchPool :
         CallUpdateAppConfig(user, appcode, settingsData) /\ UNCHANGED <<req, pending>>

SpecSettings == InitSettings /\ [][NextSettings]_vars

----------------------------------------------------------------------------
(* Two tenants side by side, with request bodies of every JSON kind and     *)
(* requests without an appcode. The two tenants' defaults and settings      *)
(* differ in every value, so data of one tenant is recognisable in an       *)
(* answer to the other.                                                     *)

TenancyPatchPool == { [y |-> 9], ArrayOf(<<7>>), Primitive("on"), Null }
\* the third identity is a token payload without tenantId
TenancyIdentityInputs ==
  { Identity("u1", "t1"), Identity("u2", "t2"), Identity("u1", Undefined) }

InitTenancy ==
  /\ tenants = [t1 |-> TenantRow("SIMALFA", "active", [w |-> 3]),
                t2 |-> TenantRow("Kendo", "active", [v |-> 4])]
  /\ apps = [a1 |-> AppRow("einvoice", "active"), a2 |-> AppRow("imagemap", "active")]
  /\ tenantApps = << PairingRow("t1", "a1", "active", [x |-> 1]),
                     PairingRow("t1", "a2", "active", Null),
                     PairingRow("t2", "a1", "active", [x |-> 5]) >>
  /\ users = [u1 |-> UserRow("admin@simalfa.com", "SIMALFA Admin", "t1", <<"r1">>),
              u2 |-> UserRow("admin@kendo.com", "Kendo Admin", "t2", <<"r1">>)]
  /\ roles = [r1 |-> RoleRow(<<PermUserRead, PermEinvoice, PermImagemap>>)]
  /\ rolePermissionsEager = FALSE
  /\ tokens = {}
  /\ now = 0
  /\ req = NoReq
  /\ call = NoCall
  /\ resp = NoResp
  /\ pending = NoPending

NextTenancy ==
  \E user \in TenancyIdentityInputs, appcode \in AppCodeInputs :
    \/ CallGetAppConfig(user, appcode, "merge") /\ UNCHANGED <<req, pending>>
    \/ \E settingsData \in TenancyPatchPool :
         CallUpdateAppConfig(user, appcode, settingsData) /\ UNCHANGED <<req, pending>>

SpecTenancy == InitTenancy /\ [][NextTenancy]_vars

----------------------------------------------------------------------------
(* Two updateAppConfig calls in flight at once. updateTenantAppSettings     *)
(* awaits three times (findOne, save, the re-read); a call is suspended at  *)
(* each await and the other call may run in between. No transaction or lock *)
(* spans the awaits.                                                        *)

Calls == {"c1", "c2"}
Idle == [pc |-> "idle"]
Done == [pc |-> "done"]
RaceInitialSettings == [x |-> 1]
RacePatchPool == { [y |-> 9], [x |-> 2, z |-> 5] }

InitRace ==
  /\ tenants = [t1 |-> TenantRow("SIMALFA", "active", [w |-> 3]),
                t2 |-> TenantRow("Kendo", "active", EmptyObj)]
  /\ apps = [a1 |-> AppRow("einvoice", "active"), a2 |-> AppRow("imagemap", "active")]
  /\ tenantApps = << PairingRow("t1", "a1", "active", RaceInitialSettings),
                     PairingRow("t1", "a2", "active", Null),
                     PairingRow("t2", "a1", "active", [x |-> 1]) >>
  /\ users = [u1 |-> UserRow("admin@simalfa.com", "SIMALFA Admin", "t1", <<"r1">>),
              u2 |-> UserRow("admin@kendo.com", "Kendo Admin", "t2", <<"r1">>)]
  /\ roles = [r1 |-> RoleRow(<<PermUserRead, PermEinvoice, PermImagemap>>)]
  /\ rolePermissionsEager = FALSE
  /\ tokens = {}
  /\ now = 0
  /\ req = NoReq
  /\ call = NoCall
  /\ resp = NoResp
  /\ pending = [c \in Calls |-> Idle]

\* the handler up to the first await: the checks of the controller, then
\* tenantApplicationRepository.findOne; the entity found stays in the call
UpdateFind(c, user, appcode, settingsData) ==
  /\ pending[c] = Idle
  /\ call' = [op |-> "updateAppConfig", user |-> user, appcode |-> appcode,
              settingsData |-> settingsData]
  /\ UNCHANGED <<store, tokens, now>>
  /\ IF InvalidSettingsData(settingsData)
       THEN /\ resp' = Throw("updateAppConfig", BAD_REQUEST, "Invalid settings data")
            /\ pending' = [pending EXCEPT ![c] = Done]
       ELSE IF user = Null \/ user.tenantId = Undefined
         THEN /\ resp' = Throw("updateAppConfig", UNAUTHORIZED, "Invalid authentication")
              /\ pending' = [pending EXCEPT ![c] = Done]
         ELSE LET i == FindTenantApp(appcode, user.tenantId) IN
              IF i = 0
                THEN /\ resp' = Throw("updateAppConfig", NOT_FOUND,
                                      "Application not found for tenant or inactive")
                     /\ pending' = [pending EXCEPT ![c] = Done]
                ELSE /\ resp' = resp
                     /\ pending' = [pending EXCEPT ![c] =
                          [pc |-> "found", appcode |-> appcode,
                           tenantId |-> user.tenantId, settingsData |-> settingsData,
                           row |-> i, tenantApp |-> tenantApps[i]]]

\* tenantApp.settings = {...(tenantApp.settings || {}), ...settingsData} on the
\* entity found, then repository.save(tenantApp): the column is written whole
UpdateSave(c) ==
  /\ pending[c].pc = "found"
  /\ tenantApps' = [tenantApps EXCEPT ![pending[c].row].settings =
                      Merge(OrEmpty(pending[c].tenantApp.settings),
                            pending[c].settingsData)]
  /\ pending' = [pending EXCEPT ![c].pc = "saved"]
  /\ UNCHANGED <<tenants, apps, users, roles, rolePermissionsEager, tokens, now,
                 call, resp>>

\* return this.getTenantConfigByAppCode(appcode, tenantId)
UpdateReread(c) ==
  /\ pending[c].pc = "saved"
  /\ resp' = getTenantConfigByAppCode("updateAppConfig", pending[c].appcode,
                                      pending[c].tenantId)
  /\ pending' = [pending EXCEPT ![c].pc = "done"]
  /\ UNCHANGED <<store, tokens, now, call>>

NextRace ==
  \E c \in Calls :
    \/ \E appcode \in SettingsAppCodeInputs, settingsData \in RacePatchPool :
         UpdateFind(c, Identity("u1", "t1"), appcode, settingsData) /\ UNCHANGED req
    \/ UpdateSave(c) /\ UNCHANGED req
    \/ UpdateReread(c) /\ UNCHANGED req

SpecRace == InitRace /\ [][NextRace]_vars

----------------------------------------------------------------------------
(* Start of the service. The constructor of TenantService calls             *)
(* initializeData() without awaiting it: after construction the seeding is  *)
(* suspended at its first await and runs on, await by await, against the    *)
(* database an earlier run has left, while handlers may already be served.  *)

\* the awaits of initializeData, in order (the saves of one table taken
\* together)
BootOrder ==
  << "clear tenant_applications", "clear users", "clear roles",
     "clear sub_applications", "clear tenants",
     "save tenants", "save roles", "save users", "save sub_applications",
     "save tenant_applications" >>
Booting(pc) == [initializeData |-> pc]
BootDone == Len(BootOrder) + 1
\* the promise of initializeData has rejected; nothing awaits it
BootRejected == 0
\* of the codes createPermissions creates, those the model names
SeedPermissions ==
  <<PermUserRead, PermRoleRead, PermEinvoice, PermImagemap, PermMarketinghub>>

\* the database as an earlier run has left it: its seed (under the ids that
\* run drew), the settings of the first Pairing possibly updated since
InitBoot ==
  /\ tenants = [t1 |-> TenantRow("SIMALFA", "active", EmptyObj),
                t2 |-> TenantRow("Kendo", "active", EmptyObj)]
  /\ apps = [a1 |-> AppRow("einvoice", "active"), a2 |-> AppRow("imagemap", "active")]
  /\ \E p1 \in PairingSettingsPool \cup PatchPool :
       tenantApps = << PairingRow("t1", "a1", "active", p1),
                       PairingRow("t1", "a2", "active", Null),
                       PairingRow("t2", "a2", "active", Null) >>
  /\ users = [u1 |-> UserRow("admin@simalfa.com", "SIMALFA Admin", "t1", <<"r1">>),
              u2 |-> UserRow("admin@kendo.com", "Kendo Admin", "t2", <<"r2">>)]
  /\ roles = [r1 |-> RoleRow(SeedPermissions), r2 |-> RoleRow(SeedPermissions)]
  /\ rolePermissionsEager = FALSE
  /\ tokens = {}
  /\ now = 0
  /\ req = NoReq
  /\ call = NoCall
  /\ resp = NoResp
  /\ pending = Booting(1)

BootAt(steps) ==
  /\ DOMAIN pending = {"initializeData"}
  /\ pending.initializeData \in 1..Len(BootOrder)
  /\ BootOrder[pending.initializeData] \in steps
BootAdvance == pending' = Booting(pending.initializeData + 1)

\* await repository.clear() of one table
ClearStep ==
  /\ BootAt({"clear tenant_applications", "clear users", "clear roles",
             "clear sub_applications", "clear tenants"})
  /\ LET step == BootOrder[pending.initializeData] IN
     /\ tenantApps' = IF step = "clear tenant_applications" THEN <<>> ELSE tenantApps
     /\ users' = IF step = "clear users" THEN <<>> ELSE users
     /\ roles' = IF step = "clear roles" THEN <<>> ELSE roles
     /\ apps' = IF step = "clear sub_applications" THEN <<>> ELSE apps
     /\ tenants' = IF step = "clear tenants" THEN <<>> ELSE tenants
  /\ BootAdvance
  /\ UNCHANGED <<rolePermissionsEager, tokens, now, req, call, resp>>

\* clear() truncates; the database refuses to truncate a table that a foreign
\* key references (tenant_applications is referenced by none): the call
\* throws and initializeData, which nothing awaits, ends there
ClearRefused ==
  /\ BootAt({"clear users", "clear roles", "clear sub_applications", "clear tenants"})
  /\ pending' = Booting(BootRejected)
  /\ UNCHANGED <<store, tokens, now, req, call, resp>>

\* the awaited saves of one table; uuidv4() draws ids no earlier row has
SeedStep ==
  /\ BootAt({"save tenants", "save roles", "save users", "save sub_applications",
             "save tenant_applications"})
  /\ LET step == BootOrder[pending.initializeData] IN
     /\ tenants' = IF step = "save tenants"
                     THEN [t4 |-> TenantRow("SIMALFA", "active", EmptyObj),
                           t5 |-> TenantRow("Kendo", "active", EmptyObj),
                           t6 |-> TenantRow("rgexp", "active", EmptyObj)]
                     ELSE tenants
     /\ roles' = IF step = "save roles"
                   THEN [r4 |-> RoleRow(SeedPermissions), r5 |-> RoleRow(SeedPermissions),
                         r6 |-> RoleRow(SeedPermissions)]
                   ELSE roles
     /\ users' = IF step = "save users"
                   THEN [u4 |-> UserRow("admin@simalfa.com", "SIMALFA Admin", "t4", <<"r4">>),
                         u5 |-> UserRow("admin@kendo.com", "Kendo Admin", "t5", <<"r5">>),
                         u6 |-> UserRow("admin@rgexp.com", "rgexp Admin", "t6", <<"r6">>)]
                   ELSE users
     /\ apps' = IF step = "save sub_applications"
                  THEN [a4 |-> AppRow("einvoice", "active"),
                        a5 |-> AppRow("imagemap", "active"),
                        a6 |-> AppRow("marketinghub", "active")]
                  ELSE apps
     /\ tenantApps' = IF step = "save tenant_applications"
                        THEN << PairingRow("t4", "a4", "active", Null),
                                PairingRow("t4", "a5", "active", Null),
                                PairingRow("t5", "a5", "active", Null),
                                PairingRow("t5", "a6", "active", Null),
                                PairingRow("t6", "a4", "active", Null),
                                PairingRow("t6", "a5", "active", Null),
                                PairingRow("t6", "a6", "active", Null) >>
                        ELSE tenantApps
  /\ BootAdvance
  /\ UNCHANGED <<rolePermissionsEager, tokens, now, req, call, resp>>

\* identities of tokens of the earlier run and of logins since the seeding
BootIdentityInputs ==
  { Identity("u1", "t1"), Identity("u4", "t4"), Identity("u5", "t5"),
    Identity("u6", "t6") }

NextBoot ==
  \/ ClearStep
  \/ ClearRefused
  \/ SeedStep
  \/ \E user \in BootIdentityInputs :
       \/ CallGetAppConfig(user, "einvoice", "merge") /\ UNCHANGED <<req, pending>>
       \/ \E settingsData \in PatchPool :
            CallUpdateAppConfig(user, "einvoice", settingsData)
              /\ UNCHANGED <<req, pending>>
       \/ CallAccessible(user.id) /\ UNCHANGED <<req, pending>>

SpecBoot == InitBoot /\ [][NextBoot]_vars

----------------------------------------------------------------------------
(* The request pipeline: global guards in provider order, then the handler. *)
(* The routes are those of AppController and the ones of TenantController   *)
(* that read the store; GET / POST app-config are specified from the        *)
(* handler's body on in SpecConfig.                                         *)

MaxNow == 7
MaxTokens == 1

\* (mutant) the two APP_GUARD providers registered the other way round
GuardOrderPermissionFirst == <<"PermissionGuard", "LoginGuard">>

\* providers: [{APP_GUARD, LoginGuard}, {APP_GUARD, PermissionGuard}]
GuardOrder == <<"LoginGuard", "PermissionGuard">>

Init ==
  /\ tenants = [t1 |-> TenantRow("SIMALFA", "active", [x |-> 0, y |-> 2]),
                t2 |-> TenantRow("Kendo", "inactive", EmptyObj)]
  /\ apps = [a1 |-> AppRow("einvoice", "active"), a2 |-> AppRow("imagemap", "active")]
  /\ tenantApps = << PairingRow("t1", "a1", "active", [x |-> 1]),
                     PairingRow("t1", "a2", "active", Null),
                     PairingRow("t2", "a2", "active", Null) >>
  /\ users = [u1 |-> UserRow("admin@simalfa.com", "SIMALFA Admin", "t1", <<"r1">>),
              u2 |-> UserRow("user@kendo.com", "Kendo User", "t2", <<"r2", "r3">>)]
  /\ roles = [r1 |-> RoleRow(<<PermUserRead, PermEinvoice, PermImagemap>>),
              r2 |-> RoleRow(<<PermImagemap>>),
              r3 |-> RoleRow(<<PermEinvoice>>)]
  /\ rolePermissionsEager \in BOOLEAN
  /\ tokens = {}
  /\ now = 0
  /\ req = NoReq
  /\ call = NoCall
  /\ resp = NoResp
  /\ pending = NoPending

\* Authorization headers a client can send: none, a scheme alone, a scheme
\* with something that is no token, with a token signed without the secret,
\* or with a token a login has returned
Headers ==
  { <<>>, <<"Bearer">>, <<"Bearer", GarbageToken>>, <<"Bearer", ForgedToken>> }
    \cup { <<"Bearer", t>> : t \in tokens }

Receive(route, authorization) ==
  /\ req.stage \in {"IDLE", "REJECTED", "HANDLED"}
  /\ req' = [stage |-> "UNCHECKED", route |-> route, authorization |-> authorization,
             user |-> Null, ran |-> <<>>]
  /\ call' = NoCall
  /\ resp' = NoResp
  /\ UNCHANGED <<store, tokens, now>>

InChain == req.stage \in {"UNCHECKED", "LOGIN_OK"}
NextGuard == GuardOrder[Len(req.ran) + 1]
\* the stage a request is in once the guard has let it through
StageAfter(guard) ==
  IF Len(req.ran) + 1 = Len(GuardOrder) THEN "AUTHORIZED"
  ELSE IF guard = "LoginGuard" THEN "LOGIN_OK" ELSE "UNCHECKED"

\* one guard of the chain runs: it lets the request through, or throws and
\* ends the request
RunGuard(guard, result) ==
  /\ req' = [req EXCEPT !.stage = IF result.pass THEN StageAfter(guard) ELSE "REJECTED",
                        !.user = IF result.pass THEN result.user ELSE @,
                        !.ran = Append(@, [step |-> guard, pass |-> result.pass])]
  /\ resp' = IF result.pass THEN resp
             ELSE Throw(req.route, result.status, result.message)
  /\ UNCHANGED <<store, tokens, now, call>>

LoginGuardStep ==
  /\ InChain /\ NextGuard = "LoginGuard"
  /\ RunGuard("LoginGuard", LoginGuard(RouteMeta(req.route), req.authorization, req.user))

PermissionGuardStep ==
  /\ InChain /\ NextGuard = "PermissionGuard"
  /\ RunGuard("PermissionGuard", PermissionGuard(RouteMeta(req.route), req.user))

\* the handler's side of a request: what every handler action does to req
Handled == [req EXCEPT !.stage = "HANDLED",
                       !.ran = Append(@, [step |-> "handler", pass |-> TRUE])]
Ready(routes) == req.stage = "AUTHORIZED" /\ req.route \in routes

\* AppController.getHello and the handlers of the decorated routes
HandlePlain ==
  /\ Ready({"GET /"} \cup DecoratedRoutes)
  /\ req' = Handled
  /\ call' = [op |-> req.route]
  /\ resp' = Reply(req.route, NoBody)
  /\ UNCHANGED <<store, tokens, now>>

EmailInputs == {"admin@simalfa.com", "user@kendo.com", "nobody@rgexp.com"}
PasswordInputs == {"admin123", "letmein"}

\* entityManager.findOne(User, {where: {email}, relations: {roles, tenant}})
FindUserByEmail(email) ==
  IF \E u \in DOMAIN users : users[u].email = email
    THEN LET u == CHOOSE u \in DOMAIN users : users[u].email = email
         IN [id |-> u, email |-> users[u].email, name |-> users[u].name,
             password |-> users[u].password, tenantId |-> users[u].tenantId,
             roles |-> MapSeq(users[u].roles, LoadRoleColumns),
             tenant |-> IF users[u].tenantId \in DOMAIN tenants
                          THEN [id |-> users[u].tenantId,
                                name |-> tenants[users[u].tenantId].name]
                          ELSE Null]
    ELSE Null

\* AppController.login with UserService.login
HandleLogin(email, password) ==
  /\ Ready({"POST login"})
  /\ req' = Handled
  /\ call' = [op |-> "login", email |-> email, password |-> password]
  /\ LET user == FindUserByEmail(email) IN
     IF user = Null
       THEN /\ resp' = Throw("login", UNAUTHORIZED, "User does not exist")
            /\ UNCHANGED tokens
     ELSE IF ~Compare(password, user.password)
       THEN /\ resp' = Throw("login", UNAUTHORIZED, "Invalid password")
            /\ UNCHANGED tokens
     ELSE LET token == Sign([id |-> user.id, email |-> user.email, name |-> user.name,
                             tenantId |-> user.tenantId, roles |-> user.roles])
          IN /\ Cardinality(tokens \cup {token}) <= MaxTokens
             /\ tokens' = tokens \cup {token}
             /\ resp' = Reply("login",
                           [token |-> token,
                            user |-> [id |-> user.id, email |-> user.email,
                                      name |-> user.name, tenantId |-> user.tenantId,
                                      tenant |-> user.tenant]])
  /\ UNCHANGED <<store, now>>

\* (mutant) the status condition is left out of the query
findAllTenantsAnyStatus == DOMAIN tenants

\* tenantRepository.find({where: {status: 'active'}})
findAllTenants == { t \in DOMAIN tenants : tenants[t].status = "active" }

\* TenantController.getTenants
HandleGetTenants ==
  /\ Ready({"GET tenants"})
  /\ req' = Handled
  /\ call' = [op |-> "listTenants"]
  /\ resp' = Reply("listTenants", findAllTenants)
  /\ UNCHANGED <<store, tokens, now>>

\* request?.user?.id
UserIdOf(user) == IF user = Null THEN Undefined ELSE user.id

\* TenantController.getSubApplications
HandleGetSubApplications ==
  /\ Ready({"GET sub-applications"})
  /\ req' = Handled
  /\ CallAccessible(UserIdOf(req.user))

\* entityManager.find(Role, {where: {id: In(roleIds)}, relations: {permissions}})
findRolesByIds(roleIds) ==
  MapSeq(SelectSeq(roleIds, LAMBDA r : r \in DOMAIN roles), LoadRole)

\* tenants.find((tenant) => tenant.id === tenantId) over findAllTenants()
FindUserTenant(tenantId) ==
  IF tenantId \in findAllTenants
    THEN [id |-> tenantId, name |-> tenants[tenantId].name,
          status |-> tenants[tenantId].status]
    ELSE Null

\* TenantController.verifyAuth: the handler reads the header again
verifyAuth(authorization) ==
  IF authorization = <<>>
    THEN Throw("verifyAuth", UNAUTHORIZED, "Not logged in")
  ELSE LET data == Verify(SplitToken(authorization)) IN
    IF ~data.ok
      THEN IF data.error = "TokenExpiredError"
             THEN Throw("verifyAuth", UNAUTHORIZED, "Token expired")
             ELSE Throw("verifyAuth", UNAUTHORIZED, "Invalid token")
    ELSE IF data.user = Null \/ data.user.id = Undefined
      THEN Throw("verifyAuth", UNAUTHORIZED, "Invalid token")
    ELSE LET rs == findRolesByIds(MapSeq(data.user.roles, LAMBDA role : role.id))
         IN Reply("verifyAuth",
              [status |-> "success",
               user |-> [id |-> data.user.id, email |-> data.user.email,
                         name |-> data.user.name, roles |-> rs,
                         permissions |-> FlatMapPermissions(rs),
                         tenant |-> FindUserTenant(data.user.tenantId)]])

HandleVerifyAuth ==
  /\ Ready({"GET verify-auth"})
  /\ req' = Handled
  /\ call' = [op |-> "verifyAuth", authorization |-> req.authorization]
  /\ resp' = verifyAuth(req.authorization)
  /\ UNCHANGED <<store, tokens, now>>

\* a day passes
Tick ==
  /\ now < MaxNow
  /\ now' = now + 1
  /\ UNCHANGED <<store, tokens, req, call, resp>>

Next ==
  \/ \E route \in Routes, authorization \in Headers :
       Receive(route, authorization) /\ UNCHANGED pending
  \/ LoginGuardStep /\ UNCHANGED pending
  \/ PermissionGuardStep /\ UNCHANGED pending
  \/ HandlePlain /\ UNCHANGED pending
  \/ \E email \in EmailInputs, password \in PasswordInputs :
       HandleLogin(email, password) /\ UNCHANGED pending
  \/ HandleGetTenants /\ UNCHANGED pending
  \/ HandleGetSubApplications /\ UNCHANGED pending
  \/ HandleVerifyAuth /\ UNCHANGED pending
  \/ Tick /\ UNCHANGED pending

Spec == Init /\ [][Next]_vars

----------------------------------------------------------------------------
(* The guard chain on routes decorated in ways the application's own        *)
(* controllers are not. The clock stands still; tokens come from logins.    *)

MetaRoutes == {"POST login"} \cup DecoratedRoutes

NextMeta ==
  \/ \E route \in MetaRoutes, authorization \in Headers :
       Receive(route, authorization) /\ UNCHANGED pending
  \/ LoginGuardStep /\ UNCHANGED pending
  \/ PermissionGuardStep /\ UNCHANGED pending
  \/ HandlePlain /\ UNCHANGED pending
  \/ \E email \in EmailInputs, password \in PasswordInputs :
       HandleLogin(email, password) /\ UNCHANGED pending

SpecMeta == Init /\ [][NextMeta]_vars

----------------------------------------------------------------------------
(* Tokens against a store that changes under them: between requests, the    *)
(* administration of the installation (no handler of this service) rewrites *)
(* a role's permissions or a user's roles. The clock stands still.          *)

SnapshotRoutes == { "POST login", "GET tenants" }
\* r1 with and without system:user:read
RolePermissionsPool == { <<PermUserRead, PermEinvoice, PermImagemap>>,
                         <<PermEinvoice, PermImagemap>> }
UserRolesInputs == { <<"r1">>, <<"r2", "r3">> }

\* rows of role_permissions rewritten for r1
ChangeRolePermissions(permissions) ==
  /\ req.stage \in {"IDLE", "REJECTED", "HANDLED"}
  /\ roles["r1"].permissions # permissions
  /\ roles' = [roles EXCEPT !["r1"].permissions = permissions]
  /\ UNCHANGED <<tenants, apps, tenantApps, users, rolePermissionsEager, tokens,
                 now, req, call, resp>>

\* rows of user_roles rewritten for u2
ChangeUserRoles(userRoles) ==
  /\ req.stage \in {"IDLE", "REJECTED", "HANDLED"}
  /\ users["u2"].roles # userRoles
  /\ users' = [users EXCEPT !["u2"].roles = userRoles]
  /\ UNCHANGED <<tenants, apps, tenantApps, roles, rolePermissionsEager, tokens,
                 now, req, call, resp>>

NextSnapshot ==
  \/ \E route \in SnapshotRoutes, authorization \in Headers :
       Receive(route, authorization) /\ UNCHANGED pending
  \/ LoginGuardStep /\ UNCHANGED pending
  \/ PermissionGuardStep /\ UNCHANGED pending
  \/ \E email \in EmailInputs, password \in PasswordInputs :
       HandleLogin(email, password) /\ UNCHANGED pending
  \/ HandleGetTenants /\ UNCHANGED pending
  \/ \E permissions \in RolePermissionsPool :
       ChangeRolePermissions(permissions) /\ UNCHANGED pending
  \/ \E userRoles \in UserRolesInputs :
       ChangeUserRoles(userRoles) /\ UNCHANGED pending

SpecSnapshot == Init /\ [][NextSnapshot]_vars

----------------------------------------------------------------------------
(* Properties of the guard chain (Spec; C4 on the decorated routes of SpecMeta) *)

InFlight == req.stage # "IDLE"
Steps == [i \in 1..Len(req.ran) |-> req.ran[i].step]
Ran(step) == \E i \in 1..Len(req.ran) : req.ran[i].step = step
Passed(step) == \E i \in 1..Len(req.ran) : req.ran[i].step = step /\ req.ran[i].pass
RejectedBy(step) ==
  /\ req.stage = "REJECTED"
  /\ req.ran[Len(req.ran)] = [step |-> step, pass |-> FALSE]
NoLoginMeta(route) ==
  RouteMeta(route).classLogin = MetaUnset /\ RouteMeta(route).handlerLogin = MetaUnset
\* the header's second word is a token that jwtService.sign has produced
CarriesSignedToken(authorization) ==
  Len(authorization) >= 2 /\ authorization[2] \in tokens

LoginGuardActs ==
  /\ InFlight /\ ~Ran("LoginGuard")
  /\ Len(req'.ran) = Len(req.ran) + 1
  /\ req'.ran[Len(req'.ran)].step = "LoginGuard"
\* the header carries a token issued by a login and not yet past its expiry
TokenVerifies(authorization) ==
  /\ CarriesSignedToken(authorization)
  /\ now < authorization[2].iat + ExpiresInDays

\* C2: where login is required, the Login Guard lets a request through only
\* with a header whose token verifies (and then populates the identity from
\* its claims); without header, or with an invalid or expired token, the
\* request is rejected Unauthenticated.
C2_LoginRequiredNeedsValidToken ==
  [][ (LoginGuardActs /\ RequireLogin(RouteMeta(req.route)) = "true") =>
        IF TokenVerifies(req.authorization)
          THEN /\ req'.stage # "REJECTED"
               /\ req'.user = req.authorization[2].user
          ELSE /\ req'.stage = "REJECTED"
               /\ resp'.status = UNAUTHORIZED ]_vars

\* a token issued by a login, presented after its expiry on a login-required
\* route, and rejected
C2_Witness ==
  /\ InFlight /\ RequireLogin(RouteMeta(req.route)) = "true"
  /\ CarriesSignedToken(req.authorization)
  /\ now >= req.authorization[2].exp
  /\ RejectedBy("LoginGuard") /\ resp.status = UNAUTHORIZED

\* the reason the Login Guard gives for a token that is no token at all
InvalidTokenReason ==
  LoginGuard(Meta("true", MetaUnset, NoPermissionMeta, NoPermissionMeta),
             <<"Bearer", GarbageToken>>, Null).message

\* C3: a token rejected for being past its expiry (it was signed by a login,
\* so expiry is the only ground) is rejected with a reason different from the
\* reason given for an invalid token.
C3_ExpiredDistinctFromInvalid ==
  (InFlight /\ RejectedBy("LoginGuard") /\ CarriesSignedToken(req.authorization))
    => (resp.status = UNAUTHORIZED /\ resp.message # InvalidTokenReason)

\* the permission codes of the identity context, role by role
IdentityCodes(user) ==
  UNION { IF "permissions" \in DOMAIN user.roles[i]
            THEN { user.roles[i].permissions[j] :
                     j \in 1..Len(user.roles[i].permissions) }
            ELSE {} :
          i \in 1..Len(user.roles) }
\* the codes a route declares: its handler's, or else its controller's
DeclaredCodes(route) ==
  IF RouteMeta(route).handlerPerms.declared
    THEN Range(RouteMeta(route).handlerPerms.codes)
    ELSE Range(RouteMeta(route).classPerms.codes)

\* C4: with a populated identity context on a route declaring codes, the
\* Permission Guard lets the request through if and only if every declared
\* code is among the codes of the identity's roles, and otherwise rejects it
\* Forbidden.
C4_AllCodesRequired ==
  (InFlight /\ Ran("PermissionGuard") /\ req.user # Null
     /\ DeclaredCodes(req.route) # {})
    => /\ Passed("PermissionGuard") <=> (DeclaredCodes(req.route) \subseteq IdentityCodes(req.user))
       /\ ~Passed("PermissionGuard") => (RejectedBy("PermissionGuard") /\ resp.status = FORBIDDEN)
       /\ Passed("PermissionGuard") => req.stage \in {"AUTHORIZED", "HANDLED"}

\* a route declaring two codes, served to an identity holding both
C4_Witness ==
  /\ InFlight /\ req.route = "decorated:two-permissions"
  /\ req.stage = "HANDLED" /\ req.user # Null
  /\ Cardinality(DeclaredCodes(req.route)) = 2

\* C5: the steps taken for a request are a prefix of Login Guard, Permission
\* Guard, handler; only the last step taken can be a rejection and nothing
\* follows it; the handler has run only after both guards passed.
C5_GuardChainOrder ==
  InFlight =>
    /\ Len(Steps) <= 3
    /\ Steps = SubSeq(<<"LoginGuard", "PermissionGuard", "handler">>, 1, Len(Steps))
    /\ \A i \in 1..(Len(req.ran) - 1) : req.ran[i].pass
    /\ req.stage = "REJECTED" <=> (Len(req.ran) >= 1 /\ ~req.ran[Len(req.ran)].pass)
    /\ req.stage = "UNCHECKED" => Len(req.ran) = 0
    /\ req.stage = "LOGIN_OK" => Len(req.ran) = 1
    /\ req.stage = "AUTHORIZED" => Len(req.ran) = 2
    /\ req.stage = "HANDLED" <=> Len(req.ran) = 3

\* rejected by the Login Guard on a route that declares a permission: the
\* Permission Guard was not evaluated
C5_Witness ==
  /\ InFlight /\ req.route = "GET tenants"
  /\ req.stage = "REJECTED"
  /\ Steps = <<"LoginGuard">>

----------------------------------------------------------------------------
(* Properties of the tenant resolver (SpecAccess) *)

AccessibleAnswered == resp.op = "accessibleApplications"
HasUser(userId) == userId \in DOMAIN users
HasTenant(userId) == HasUser(userId) /\ users[userId].tenantId \in DOMAIN tenants
\* the permission codes of all roles of a stored user
UserPermissionCodes(userId) ==
  UNION { Range(roles[r].permissions) : r \in Range(users[userId].roles) \cap DOMAIN roles }
ReturnedIds == { resp.body[i].id : i \in 1..Len(resp.body) }
ReturnedCodes == { resp.body[i].code : i \in 1..Len(resp.body) }

\* C6: accessibleApplications(userId) answers the empty sequence, and not an
\* error, when no user has that id or when the user's tenant is missing.
C6_EmptyForMissingUserOrTenant ==
  (AccessibleAnswered /\ ~HasTenant(call.userId))
    => (resp.status = OK /\ resp.body = <<>>)

\* a user whose tenant is missing although a role grants access to an active
\* application that some tenant is paired with
C6_Witness ==
  /\ AccessibleAnswered /\ call.userId = "u3"
  /\ PermEinvoice \in UserPermissionCodes("u3")
  /\ apps["a1"].status = "active"
  /\ resp.body = <<>>

\* the applications the spec calls accessible for a user with a tenant
UsableAccessible(userId) ==
  { a \in DOMAIN apps :
      /\ \E i \in 1..Len(tenantApps) :
            /\ tenantApps[i].tenant_id = users[userId].tenantId
            /\ tenantApps[i].application_id = a
            /\ tenantApps[i].status = "active"
      /\ apps[a].status = "active"
      /\ <<"app", apps[a].code, "access">> \in UserPermissionCodes(userId) }

\* C7: for a user with a tenant the answer is exactly the applications with an
\* active Pairing to the user's tenant, active themselves, and granted by a
\* permission app:<code>:access of one of the user's roles.
C7_ExactlyUsableAndGranted ==
  (AccessibleAnswered /\ HasTenant(call.userId))
    => ReturnedIds = UsableAccessible(call.userId)

SeqPermutations(s) ==
  { [i \in 1..Len(s) |-> s[p[i]]] :
      p \in { q \in [1..Len(s) -> 1..Len(s)] :
                \A i, j \in 1..Len(s) : q[i] = q[j] => i = j } }
\* every reordering of the roles of a loaded user and of each role's permissions
Reorderings(user) ==
  LET within(r) == { [r EXCEPT !.permissions = ps] : ps \in SeqPermutations(r.permissions) }
      all == UNION { within(user.roles[i]) : i \in 1..Len(user.roles) }
      inner == { c \in [1..Len(user.roles) -> all] :
                   \A i \in 1..Len(user.roles) : c[i] \in within(user.roles[i]) }
  IN { [user EXCEPT !.roles = rs] : rs \in UNION { SeqPermutations(c) : c \in inner } }

\* the codes <c> of the permissions app:<c>:access a user holds
GrantedCodes(userId) ==
  { c[2] : c \in { p \in UserPermissionCodes(userId) :
                     Len(p) = 3 /\ p[1] = "app" /\ p[3] = "access" } }

\* C8: a user whose only application grant is app:einvoice:access gets the
\* application coded einvoice and no other (it is returned whenever the tenant
\* has a usable Pairing to it), and the answer does not depend on the order of
\* the roles or of the permissions within a role.
C8_EinvoiceOnlyAndOrderFree ==
  (AccessibleAnswered /\ HasTenant(call.userId)) =>
    /\ ( /\ PermEinvoice \in UserPermissionCodes(call.userId)
         /\ \A p \in UserPermissionCodes(call.userId) :
              (StartsWithApp(p) /\ EndsWithAccess(p)) => p = PermEinvoice )
       => /\ ReturnedCodes \subseteq {"einvoice"}
          /\ UsableAccessible(call.userId) \subseteq ReturnedIds
    /\ \A v \in Reorderings(LoadUser(call.userId)) : AccessibleApps(v) = resp.body

\* einvoice is granted by the second permission of the second role, imagemap
\* is paired and active but not granted: only einvoice is returned
C8_Witness ==
  /\ AccessibleAnswered /\ call.userId = "u1"
  /\ users["u1"].roles = <<"r2", "r1">>
  /\ roles["r1"].permissions = <<PermUserRead, PermEinvoice>>
  /\ roles["r2"].permissions = <<PermRoleRead>>
  /\ apps["a2"].status = "active" /\ tenantApps[2].status = "active"
  /\ ReturnedIds = {"a1"}


----------------------------------------------------------------------------
(* Properties of the configuration resolver (SpecConfig) *)

\* the pairing rows of a tenant for an application code
PairingsOf(tenantId, appcode) ==
  { i \in 1..Len(tenantApps) :
      /\ tenantApps[i].tenant_id = tenantId
      /\ tenantApps[i].application_id \in DOMAIN apps
      /\ apps[tenantApps[i].application_id].code = appcode }
\* the tenant is active and has a Pairing for the code, active itself, to an
\* active application
UsablePairing(tenantId, appcode) ==
  /\ tenantId \in DOMAIN tenants /\ tenants[tenantId].status = "active"
  /\ \E i \in PairingsOf(tenantId, appcode) :
       /\ tenantApps[i].status = "active"
       /\ apps[tenantApps[i].application_id].status = "active"
ThePairing(tenantId, appcode) == tenantApps[CHOOSE i \in PairingsOf(tenantId, appcode) : TRUE]
\* keys of a settings blob (none for a NULL column)
Keys(obj) == IF obj = Null THEN {} ELSE DOMAIN obj

GetAnswered(modes) ==
  /\ resp.op = "getAppConfig" /\ call.mode \in modes
  /\ UsablePairing(call.user.tenantId, call.appcode)

\* C9: in merge mode (given or defaulted) on an active tenant with a usable
\* Pairing, the settings returned have exactly the keys of the tenant defaults
\* and of the Pairing settings, with the Pairing's value on the Pairing's keys
\* and the default's value on the others.
C9_MergePairingWins ==
  GetAnswered({Undefined, "merge"}) =>
    LET defaults == tenants[call.user.tenantId].custom_settings
        pairing == ThePairing(call.user.tenantId, call.appcode).settings
    IN /\ resp.status = OK
       /\ DOMAIN resp.body.settings = Keys(defaults) \cup Keys(pairing)
       /\ \A k \in Keys(pairing) : resp.body.settings[k] = pairing[k]
       /\ \A k \in Keys(defaults) \ Keys(pairing) : resp.body.settings[k] = defaults[k]

\* defaults {x:0, y:2} with Pairing {x:1}, mode omitted: {x:1, y:2}
C9_Witness ==
  /\ GetAnswered({Undefined})
  /\ tenants[call.user.tenantId].custom_settings = [x |-> 0, y |-> 2]
  /\ ThePairing(call.user.tenantId, call.appcode).settings = [x |-> 1]
  /\ resp.body.settings = [x |-> 1, y |-> 2]

\* C10: in standalone mode the settings returned are the Pairing's settings
\* only; no key of the tenant defaults alone appears.
C10_StandaloneIgnoresDefaults ==
  GetAnswered({"standalone"}) =>
    LET pairing == ThePairing(call.user.tenantId, call.appcode).settings
    IN /\ resp.status = OK
       /\ resp.body.settings = OrEmpty(pairing)

\* getAppConfig was the last call, made with a complete identity context
GetCalled == resp.op = "getAppConfig" /\ call.op = "getAppConfig"
TenantActive(tenantId) ==
  tenantId \in DOMAIN tenants /\ tenants[tenantId].status = "active"
\* the tenant has a Pairing row for the code whose application is active
PairedToActiveApp(tenantId, appcode) ==
  \E i \in PairingsOf(tenantId, appcode) :
    apps[tenantApps[i].application_id].status = "active"

\* C11: getAppConfig for an active tenant and an active sub-application whose
\* Pairing exists with a status other than active fails NotFound.
C11_InactivePairingNotFound ==
  ( /\ GetCalled
    /\ TenantActive(call.user.tenantId)
    /\ PairedToActiveApp(call.user.tenantId, call.appcode)
    /\ \A i \in PairingsOf(call.user.tenantId, call.appcode) :
         tenantApps[i].status # "active" )
    => resp.status = NOT_FOUND

\* C12: getAppConfig fails NotFound when the tenant is missing or not active,
\* whatever the Pairing; it fails NotFound with another message when the
\* tenant is active but has no Pairing for the code to an active application;
\* neither answer carries a configuration.
C12_NotFoundTenantFirst ==
  GetCalled =>
    /\ ~TenantActive(call.user.tenantId) =>
         /\ resp.status = NOT_FOUND
         /\ resp.message = "Tenant not found or inactive"
         /\ resp.body = NoBody
    /\ (TenantActive(call.user.tenantId)
          /\ ~PairedToActiveApp(call.user.tenantId, call.appcode)) =>
         /\ resp.status = NOT_FOUND
         /\ resp.message = "Application not found for this tenant or inactive"
         /\ resp.body = NoBody
    /\ resp.status = NOT_FOUND <=>
         ~(TenantActive(call.user.tenantId)
             /\ PairedToActiveApp(call.user.tenantId, call.appcode))

\* an inactive tenant asked for a code whose application is inactive too: the
\* tenant's failure is the one reported
C12_Witness ==
  /\ GetCalled /\ call.user.tenantId = "t1" /\ call.appcode = "einvoice"
  /\ tenants["t1"].status = "inactive" /\ apps["a1"].status = "inactive"
  /\ resp.status = NOT_FOUND /\ resp.message = "Tenant not found or inactive"

----------------------------------------------------------------------------
(* Properties of settings updates (SpecSettings) *)

\* this step is an updateAppConfig call that is answered with a configuration
UpdateSucceeds == call'.op = "updateAppConfig" /\ resp'.status = OK

\* C13: no step removes a key from the settings of a Pairing; after a
\* successful updateAppConfig every key of the patch holds the patch's value in
\* the stored settings, the other keys hold what they held, and a getAppConfig
\* in merge mode made next returns the patch's values and every prior key.
C13_UpdateKeepsKeys ==
  [][ /\ Len(tenantApps') = Len(tenantApps)
      /\ \A i \in 1..Len(tenantApps) :
           Keys(tenantApps[i].settings) \subseteq Keys(tenantApps'[i].settings)
      /\ \A user \in IdentityInputs, appcode \in AppCodeInputs :
           (UpdateSucceeds /\ call'.user = user /\ call'.appcode = appcode) =>
             LET i == FindTenantApp(appcode, user.tenantId)
                 patch == call'.settingsData
                 before == OrEmpty(tenantApps[i].settings)
                 after == tenantApps'[i].settings
                 read == getAppConfig(user, appcode, "merge")'
             IN /\ i # 0
                /\ \A k \in DOMAIN patch : after[k] = patch[k]
                /\ \A k \in DOMAIN before \ DOMAIN patch : after[k] = before[k]
                /\ read.status = OK
                /\ \A k \in DOMAIN patch : read.body.settings[k] = patch[k]
                /\ DOMAIN before \subseteq DOMAIN read.body.settings ]_vars

\* {x:1} patched with {x:2, y:8} and then with {y:9}: the answer is the tenant
\* default w with x of the first patch and y of the second
C13_Witness ==
  /\ call.op = "updateAppConfig" /\ resp.status = OK
  /\ call.user.tenantId = "t1" /\ call.appcode = "einvoice"
  /\ call.settingsData = [y |-> 9]
  /\ tenantApps[1].settings = [x |-> 2, y |-> 9]
  /\ resp.body.settings = [w |-> 3, x |-> 2, y |-> 9]

\* C14: an updateAppConfig that repeats the successful call made just before
\* it (same identity, code and patch) leaves the stored settings as they are
\* and returns the same configuration.
C14_UpdateIdempotent ==
  [][ (call.op = "updateAppConfig" /\ resp.status = OK /\ call' = call)
        => (tenantApps' = tenantApps /\ resp' = resp) ]_vars

\* a Pairing without settings after the patch {x:2, y:8}: the call that can
\* be repeated
C14_Witness ==
  /\ call.op = "updateAppConfig" /\ resp.status = OK
  /\ call.user.tenantId = "t1" /\ call.appcode = "imagemap"
  /\ call.settingsData = [x |-> 2, y |-> 8]
  /\ tenantApps[2].settings = [x |-> 2, y |-> 8]

----------------------------------------------------------------------------
(* Properties of login, tokens, listTenants and verifyAuth (Spec) *)

\* the handler of the request in flight runs in this step
HandlerActs(route) ==
  /\ InFlight /\ req.route = route
  /\ req.stage = "AUTHORIZED" /\ req'.stage = "HANDLED"
\* the stored users with that email whose stored hash matches the password
Matching(email, password) ==
  { u \in DOMAIN users :
      users[u].email = email /\ users[u].password = Hash(password) }

\* C15: a login with an email no user has, or with a password that does not
\* match the stored hash, is answered Unauthenticated and issues no token; a
\* token is issued only by a login for a stored user whose password matches.
C15_LoginIssuesTokenOnlyOnMatch ==
  [][ /\ HandlerActs("POST login") =>
           IF Matching(call'.email, call'.password) = {}
             THEN /\ resp'.status = UNAUTHORIZED
                  /\ resp'.body = NoBody
                  /\ tokens' = tokens
             ELSE /\ resp'.status = OK
                  /\ resp'.body.token.user.id \in Matching(call'.email, call'.password)
                  /\ tokens' = tokens \cup {resp'.body.token}
      /\ tokens' # tokens => HandlerActs("POST login") ]_vars

\* the email of a stored user with a wrong password: Unauthenticated, no token
C15_Witness ==
  /\ call.op = "login" /\ call.email = "admin@simalfa.com" /\ call.password = "letmein"
  /\ resp.status = UNAUTHORIZED /\ resp.message = "Invalid password"
  /\ tokens = {}

LoginRequiredMeta == Meta("true", MetaUnset, NoPermissionMeta, NoPermissionMeta)

\* C16: every token issued carries exactly the claims id, email, name,
\* tenantId and roles of a stored user and expires 7 days after its issue; the
\* Login Guard accepts it while fewer than 7 days have passed since its issue
\* and rejects it from then on; tokens are only added, by a login, with the
\* current day as issue day, and none is ever replaced.
C16_TokenValidSevenDays ==
  [][ /\ \A t \in tokens' :
           /\ DOMAIN t.user = {"id", "email", "name", "tenantId", "roles"}
           /\ t.user.id \in DOMAIN users'
           /\ t.user.email = users'[t.user.id].email
           /\ t.user.name = users'[t.user.id].name
           /\ t.user.tenantId = users'[t.user.id].tenantId
           /\ MapSeq(t.user.roles, LAMBDA role : role.id) = users'[t.user.id].roles
           /\ t.exp = t.iat + 7
           /\ t.iat <= now'
           /\ (LoginGuard(LoginRequiredMeta, <<"Bearer", t>>, Null).pass)'
                 <=> now' < t.iat + 7
      /\ tokens \subseteq tokens'
      /\ \A t \in tokens' \ tokens : t.iat = now /\ HandlerActs("POST login") ]_vars

\* a token issued on day 0 is refused by the Login Guard on day 7
C16_Witness ==
  /\ InFlight /\ req.route = "GET verify-auth"
  /\ CarriesSignedToken(req.authorization)
  /\ req.authorization[2].iat = 0 /\ now = 7
  /\ RejectedBy("LoginGuard")

\* C17: the handler of listTenants runs only for an identity holding
\* system:user:read; a request rejected on that route is Unauthenticated (by
\* the Login Guard) or Forbidden (by the Permission Guard, for an identity
\* without the permission); the answer is exactly the set of active tenants.
C17_ListTenantsGuardedActiveOnly ==
  (InFlight /\ req.route = "GET tenants") =>
    /\ Ran("handler") =>
         /\ req.user # Null
         /\ PermUserRead \in IdentityCodes(req.user)
         /\ resp.status = OK
         /\ resp.body = { t \in DOMAIN tenants : tenants[t].status = "active" }
    /\ RejectedBy("LoginGuard") => resp.status = UNAUTHORIZED
    /\ RejectedBy("PermissionGuard") =>
         /\ resp.status = FORBIDDEN
         /\ PermUserRead \notin IdentityCodes(req.user)
    /\ (Passed("LoginGuard") /\ Len(req.ran) >= 2) =>
         (Passed("PermissionGuard") <=> PermUserRead \in IdentityCodes(req.user))

\* with one tenant inactive, the permitted identity is answered with the
\* active one only
C17_Witness ==
  /\ InFlight /\ req.route = "GET tenants" /\ req.stage = "HANDLED"
  /\ req.user.id = "u1"
  /\ tenants["t2"].status = "inactive"
  /\ resp.body = {"t1"}

\* the stored tenant of a user
TenantOf(userId) ==
  [id |-> users[userId].tenantId,
   name |-> tenants[users[userId].tenantId].name,
   status |-> tenants[users[userId].tenantId].status]

\* C18: a request to verifyAuth ends Unauthenticated whenever its header
\* carries no token that verifies at that moment, and otherwise is answered
\* with the token's user, the stored roles of that user, the permissions of
\* these roles and the user's tenant.
C18_VerifyAuthAnswer ==
  [][ ( /\ InFlight /\ req.route = "GET verify-auth"
        /\ req'.route = req.route /\ Len(req'.ran) = Len(req.ran) + 1
        /\ req'.stage \in {"REJECTED", "HANDLED"} ) =>
        IF TokenVerifies(req.authorization)
          THEN LET claims == req.authorization[2].user IN
               /\ req'.stage = "HANDLED"
               /\ resp'.status = OK
               /\ resp'.body.user.id = claims.id
               /\ resp'.body.user.email = claims.email
               /\ resp'.body.user.name = claims.name
               /\ resp'.body.user.roles = MapSeq(users[claims.id].roles, LoadRole)
               /\ Range(resp'.body.user.permissions) = UserPermissionCodes(claims.id)
               /\ resp'.body.user.tenant = TenantOf(claims.id)
          ELSE resp'.status = UNAUTHORIZED ]_vars

----------------------------------------------------------------------------
(* Properties of concurrent settings updates (SpecRace) *)

\* both calls have saved a patch to the Pairing of t1 with einvoice
BothSaved ==
  \A c \in Calls :
    /\ pending[c].pc \in {"saved", "done"}
    /\ "row" \in DOMAIN pending[c]
    /\ pending[c].row = 1

\* C19: once two concurrent updateAppConfig calls on the same Pairing have
\* both saved, the stored settings are those obtained by applying the two
\* patches to the initial settings one after the other, in one of the two
\* orders.
C19_UpdatesSerializable ==
  BothSaved =>
    LET p1 == pending["c1"].settingsData
        p2 == pending["c2"].settingsData
    IN tenantApps[1].settings \in
         { Merge(Merge(RaceInitialSettings, p1), p2),
           Merge(Merge(RaceInitialSettings, p2), p1) }

----------------------------------------------------------------------------
(* Frame of the core (SpecBoot) *)

\* a Pairing row but for its settings
WithoutSettings(row) ==
  [tenant_id |-> row.tenant_id, application_id |-> row.application_id,
   status |-> row.status]

\* C20: no step of the service changes a tenant, a sub-application, a user
\* or a role (with its permissions), none adds or deletes a Pairing row, and
\* none changes a Pairing row in anything but its settings.
C20_OnlyPairingSettingsChange ==
  [][ /\ tenants' = tenants
      /\ apps' = apps
      /\ users' = users
      /\ roles' = roles
      /\ Len(tenantApps') = Len(tenantApps)
      /\ \A i \in 1..Len(tenantApps) :
           WithoutSettings(tenantApps'[i]) = WithoutSettings(tenantApps[i]) ]_vars

\* C21: an update whose patch is not a JSON object (null, a primitive, an
\* array) is answered BadRequest and leaves every Pairing's settings as they
\* were.
UpdateCalled == call # NoCall /\ call.op = "updateAppConfig"

IsJsonObject(value) ==
  value # Null /\ ~IsArray(value) /\ ~IsPrimitive(value)

C21_NonObjectPatchRejected ==
  [][ (UpdateCalled' /\ ~IsJsonObject(call'.settingsData))
        => /\ resp'.status = BAD_REQUEST
           /\ tenantApps' = tenantApps ]_vars

\* C22: getAppConfig and updateAppConfig called without an application code
\* are answered BadRequest, and no Pairing's settings are modified by such a
\* call.
C22_AbsentCodeBadRequest ==
  [][ (call' # NoCall /\ call'.op \in {"getAppConfig", "updateAppConfig"}
         /\ call'.appcode = Undefined)
        => /\ resp'.status = BAD_REQUEST
           /\ tenantApps' = tenantApps ]_vars

\* C27: an updateAppConfig for a given application code that ends in NotFound
\* (tenant missing or inactive, Pairing missing, application inactive) leaves
\* the settings of every Pairing as they were before the call.
C27_NotFoundUpdateHasNoEffect ==
  [][ (UpdateCalled' /\ call'.appcode # Undefined /\ resp'.status = NOT_FOUND)
        => tenantApps' = tenantApps ]_vars

\* C28: getAppConfig and updateAppConfig act only on the tenant named by the
\* caller's tenantId claim. A call changes no Pairing of another tenant and at
\* most one Pairing, which is one of the caller's tenant for the application
\* code given; a configuration answered is made of the caller's tenant, its
\* defaults and the settings of one of its own Pairings, nothing else.
ConfigCalled == call # NoCall /\ call.op \in {"getAppConfig", "updateAppConfig"}

ChangedPairings == { i \in 1..Len(tenantApps) : tenantApps'[i] # tenantApps[i] }

C28_TenantIsolation ==
  [][ ConfigCalled' =>
        LET tenantId == call'.user.tenantId
            appcode == call'.appcode IN
        /\ Len(tenantApps') = Len(tenantApps)
        /\ Cardinality(ChangedPairings) <= 1
        /\ \A i \in ChangedPairings :
             /\ call'.op = "updateAppConfig"
             /\ tenantApps[i].tenant_id = tenantId
             /\ tenantApps'[i].tenant_id = tenantId
             /\ tenantApps'[i].application_id = tenantApps[i].application_id
             /\ appcode # Undefined => apps[tenantApps[i].application_id].code = appcode
        /\ resp'.status = OK =>
             /\ resp'.body.tenant.id = tenantId
             /\ \E i \in 1..Len(tenantApps') :
                  /\ tenantApps'[i].tenant_id = tenantId
                  /\ tenantApps'[i].application_id = resp'.body.application.id
                  /\ apps[tenantApps'[i].application_id].code = appcode
                  /\ resp'.body.settings =
                       Merge(OrEmpty(tenants[tenantId].custom_settings),
                             OrEmpty(tenantApps'[i].settings)) ]_vars

\* a user of t2 has updated its einvoice Pairing after a user of t1 updated
\* theirs; each row holds its own tenant's values
C28_Witness ==
  /\ UpdateCalled /\ call.user.tenantId = "t2" /\ call.appcode = "einvoice"
  /\ resp.status = OK
  /\ resp.body.settings = [v |-> 4, x |-> 5, y |-> 9]
  /\ tenantApps[1].settings = ("0" :> 7 @@ "x" :> 1)
  /\ tenantApps[3].settings = [x |-> 5, y |-> 9]

\* C25: when a controller and one of its handlers both declare the
\* login-required flag, or both declare required permissions, the guards go by
\* the handler's declaration: a handler marked login-not-required in a
\* login-required controller is served without a credential.
BothDeclareLogin(meta) ==
  meta.classLogin # MetaUnset /\ meta.handlerLogin # MetaUnset

BothDeclarePermissions(meta) ==
  meta.classPerms.declared /\ meta.handlerPerms.declared

C25_HandlerMetadataOverrides ==
  InFlight =>
    LET meta == RouteMeta(req.route) IN
    /\ (BothDeclareLogin(meta) /\ meta.handlerLogin = "false" /\ Ran("LoginGuard"))
         => Passed("LoginGuard")
    /\ (BothDeclareLogin(meta) /\ meta.handlerLogin = "true" /\ Passed("LoginGuard"))
         => req.user # Null
    /\ (BothDeclarePermissions(meta) /\ Ran("PermissionGuard"))
         => (Passed("PermissionGuard")
               <=> Range(meta.handlerPerms.codes) \subseteq FlattenedPermissions(req.user))

\* C26: once initializeData has completed, accessibleApplications for a seeded
\* administrator answers exactly the applications the seed pairs with that
\* administrator's tenant: einvoice and imagemap for the SIMALFA admin,
\* imagemap and marketinghub for the Kendo admin, all three for the rgexp
\* admin.
SeededAdminEmails == { "admin@simalfa.com", "admin@kendo.com", "admin@rgexp.com" }

SeededAdminApps(email) ==
  CASE email = "admin@simalfa.com" -> { "einvoice", "imagemap" }
    [] email = "admin@kendo.com" -> { "imagemap", "marketinghub" }
    [] email = "admin@rgexp.com" -> { "einvoice", "imagemap", "marketinghub" }

C26_SeededAdminsSeeTenantApps ==
  [][ (/\ pending = Booting(BootDone)
       /\ call'.op = "accessibleApplications"
       /\ call'.userId \in DOMAIN users
       /\ users[call'.userId].email \in SeededAdminEmails)
        => /\ resp'.status = OK
           /\ { resp'.body[i].code : i \in 1..Len(resp'.body) }
                = SeededAdminApps(users[call'.userId].email) ]_vars

\* the Kendo admin of the new seed has asked after the seeding completed
C26_Witness ==
  /\ pending = Booting(BootDone)
  /\ call.op = "accessibleApplications" /\ call.userId = "u5"
  /\ users["u5"].email = "admin@kendo.com"
  /\ ReturnedCodes = { "imagemap", "marketinghub" }

\* C23: a token minted by login carries, for each role of the user, the role's
\* permissions as loaded at login, so the identity context the Login Guard
\* builds from it flattens to the union of the codes of the user's roles, and
\* a user a role of whom holds system:user:read is let through to listTenants
\* with the token of their login.
C23_TokenCarriesPermissions ==
  /\ \A t \in tokens :
       /\ Len(t.user.roles) = Len(users[t.user.id].roles)
       /\ \A i \in 1..Len(t.user.roles) :
            t.user.roles[i] = LoadRole(users[t.user.id].roles[i])
  /\ (InFlight /\ req.route = "GET tenants" /\ Passed("LoginGuard"))
       => /\ FlattenedPermissions(req.user) = UserPermissionCodes(req.user.id)
          /\ (PermUserRead \in UserPermissionCodes(req.user.id)
                /\ Ran("PermissionGuard"))
               => Passed("PermissionGuard")

\* C24: the identity context the Login Guard populates is the claims of the
\* presented token, and those are what login loaded from the store when it
\* issued the token. The guards decide on listTenants by the token alone: a
\* change of a role's permissions or of a user's roles made in the store
\* after the issue does not change the decision for that token; it shows
\* only in tokens a later login issues.
TokenCodes(token) == IdentityCodes(token.user)

====
